---- MODULE Spec2Model ----
(***************************************************************************)
(* Estate-planning agent gateway.                                          *)
(*                                                                         *)
(* Seven parts of the repository are modelled, each with its own           *)
(* specification over the shared variables:                                *)
(*   SpecSections  the keyword-driven section progression of               *)
(*                 src/ep_agent_sample.py (invoke);                        *)
(*   SpecMerge     the answer-record merge of src/ep_agent_working_copy.py *)
(*                 (SessionManager.update_answers, Answers) as a function  *)
(*                 applied to drawn records and update maps;               *)
(*   SpecStore     the session store and the request handler of            *)
(*                 src/ep_agent_working_copy.py (SessionManager, invoke,   *)
(*                 manage_state).                                          *)
(*   SpecToken     get_access_token of src/ep_agent.py, entered with a     *)
(*                 drawn max_retries;                                      *)
(*   SpecAgent     create_agent and invoke of src/ep_agent.py;             *)
(*   SpecConcurrent  two requests for one session in the handler of        *)
(*                 src/ep_agent_working_copy.py;                           *)
(*   SpecSetup     Settings of src/settings.py and                         *)
(*                 setup_m2m_credential_provider, in a drawn environment;  *)
(*   SpecLazy      the lazy creation of the agent of src/ep_agent.py by    *)
(*                 overlapping requests;                                   *)
(*   SpecCorrupted  SpecSections from sessions whose stored section        *)
(*                 pointer names no section.                               *)
(***************************************************************************)
EXTENDS Integers, Sequences, FiniteSets, TLC

VARIABLES
    agentState,   \* ep_agent_sample: session id -> the "estate_planning" metadata kept in agent.state
    smLast,       \* ep_agent_sample: what the last request was and what it saw (history)
    mRec,         \* merge: the answer record the update maps are applied to
    mU,           \* merge: the update map U, a sequence of <<key, value>> in dict order
    mV,           \* merge: a second update map, related to U as mRel says
    mRel,         \* merge: how mV is derived from mU
    mOnce,        \* merge: outcome of update_answers(U) on mRec
    mTwice,       \* merge: outcome of update_answers(U) applied again to mOnce
    mOther,       \* merge: outcome of update_answers(mV) on mRec
    sessions,     \* store: SessionManager.sessions, session id -> SessionState
    inflight,     \* store: request slot -> the agent state of a request being handled
    created,      \* store: session id -> number of SessionState constructions (history)
    stLast,       \* store: the last store operation and what it saw (history)
    tok,          \* ep_agent: the get_access_token call in progress, with its log of calls and sleeps
    ca,           \* ep_agent: the request being handled by invoke and its create_agent call
    agent,        \* ep_agent: the module-level agent, None until create_agent succeeded
    agLast,       \* ep_agent: how the last request ended (history)
    cReq,         \* working copy: request slot -> a request for the one session, and its record
    cStart,       \* working copy: the session before the two requests (history)
    env,          \* settings: os.environ, variable -> no value, "" or a value
    settings,     \* settings: the outcome of Settings()
    idp,          \* setup_identity: the outcome of setup_m2m_credential_provider()
    lz,           \* ep_agent: worker thread -> where it is in invoke, and requests handled
    lzInstalls    \* ep_agent: the values create_agent returned, in order (history)

smVars == <<agentState, smLast>>
mVars == <<mRec, mU, mV, mRel, mOnce, mTwice, mOther>>
stVars == <<sessions, inflight, created, stLast>>
gwVars == <<tok, ca, agent, agLast>>
cVars == <<cReq, cStart>>
suVars == <<env, settings, idp>>
lzVars == <<lz, lzInstalls>>
vars == <<agentState, smLast, mRec, mU, mV, mRel, mOnce, mTwice, mOther,
          sessions, inflight, created, stLast, tok, ca, agent, agLast,
          cReq, cStart, env, settings, idp, lz, lzInstalls>>

Range(s) == {s[i] : i \in 1..Len(s)}

(***************************************************************************)
(* Bounds of the model.                                                    *)
(***************************************************************************)
\* longest assistant response, in words
MaxWords == 2
\* most keys in one update map
MaxKeys == 2

SessionIds == {"s1", "s2"}

\* Python's None
None == "None"

(***************************************************************************)
(* PART 1.  Section progression, src/ep_agent_sample.py                    *)
(***************************************************************************)

WORKFLOW_SECTIONS ==
    << "CLIENT_INFORMATION", "MARITAL_STATUS", "FAMILY_INFORMATION", "ASSETS",
       "DISTRIBUTION_OF_ASSETS", "GUARDIANSHIP", "EXECUTOR_APPOINTMENT",
       "ADDITIONAL_CONSIDERATIONS", "REVIEW_AND_COMPLETION" >>

\* the keys of the section_transitions dict
SectionNames == Range(WORKFLOW_SECTIONS)

section_transitions ==
    [ s \in SectionNames |->
        CASE s = "CLIENT_INFORMATION" ->
               [keywords |-> <<"marital", "married", "single", "divorced", "widowed">>,
                next |-> "MARITAL_STATUS"]
          [] s = "MARITAL_STATUS" ->
               [keywords |-> <<"children", "dependents", "family">>,
                next |-> "FAMILY_INFORMATION"]
          [] s = "FAMILY_INFORMATION" ->
               [keywords |-> <<"assets", "property", "accounts", "investments">>,
                next |-> "ASSETS"]
          [] s = "ASSETS" ->
               [keywords |-> <<"beneficiaries", "inherit", "distribute", "bequest">>,
                next |-> "DISTRIBUTION_OF_ASSETS"]
          [] s = "DISTRIBUTION_OF_ASSETS" ->
               [keywords |-> <<"guardian", "minor", "care for children">>,
                next |-> "GUARDIANSHIP"]
          [] s = "GUARDIANSHIP" ->
               [keywords |-> <<"executor", "personal representative", "administer">>,
                next |-> "EXECUTOR_APPOINTMENT"]
          [] s = "EXECUTOR_APPOINTMENT" ->
               [keywords |-> <<"funeral", "burial", "charitable", "donation", "pets", "digital">>,
                next |-> "ADDITIONAL_CONSIDERATIONS"]
          [] s = "ADDITIONAL_CONSIDERATIONS" ->
               [keywords |-> <<"review", "complete", "finalize", "summary">>,
                next |-> "REVIEW_AND_COMPLETION"]
          [] s = "REVIEW_AND_COMPLETION" ->
               [keywords |-> <<>>, next |-> None] ]

\* section_transitions.get(current_section, {}) read through .get("keywords", [])
\* and .get("next"): an unknown section has no keywords and no next
SectionInfo(current_section) ==
    IF current_section \in SectionNames
    THEN section_transitions[current_section]
    ELSE [keywords |-> <<>>, next |-> None]

(***************************************************************************)
(* The assistant response is a sequence of words.  The words the model     *)
(* draws: one keyword of most sections as the model writes it, a           *)
(* capitalised spelling, a phrase that contains another section's keyword, *)
(* and a word that is no keyword.                                          *)
(***************************************************************************)
Vocabulary ==
    { "hello", "married", "Married", "children", "care for children",
      "assets", "inherit", "executor", "funeral", "review" }

Texts == UNION { [1..n -> Vocabulary] : n \in 0..MaxWords }

\* str.lower() on one word
LowerWord(w) == IF w = "Married" THEN "married" ELSE w

\* a mutant of MessageLower: the response is scanned as written
MessageLower_NoLower(message_text) == message_text

\* message_lower = message_text.lower()
MessageLower(message_text) ==
    [i \in 1..Len(message_text) |-> LowerWord(message_text[i])]

\* Python's substring test on one word of the response
SubstringOf(keyword, word) ==
    \/ keyword = word
    \/ keyword = "children" /\ word = "care for children"

\* keyword in message_lower
KeywordIn(keyword, message_lower) ==
    \E i \in 1..Len(message_lower) : SubstringOf(keyword, message_lower[i])

MarkCompleted_Never(completed_sections, current_section) == completed_sections

\* if current_section not in completed_sections: completed_sections.append(current_section)
MarkCompleted(completed_sections, current_section) ==
    IF current_section \in Range(completed_sections)
    THEN completed_sections
    ELSE Append(completed_sections, current_section)

\* a mutant of NextSection: the table entry names the section after the next
NextSection_Skip(info) ==
    IF info.next = None THEN None ELSE SectionInfo(info.next).next

\* next_section = current_section_info.get("next")
NextSection(info) == info.next

\* the for loop over the current section's keywords; info is fetched once,
\* before the loop, and the loop breaks only after a move to a next section
RECURSIVE ScanKeywords(_, _, _, _, _)
ScanKeywords(info, i, message_lower, current_section, completed_sections) ==
    IF i > Len(info.keywords)
    THEN [current_section |-> current_section, completed_sections |-> completed_sections]
    ELSE IF KeywordIn(info.keywords[i], message_lower)
         THEN LET done == MarkCompleted(completed_sections, current_section)
                  next_section == NextSection(info)
              IN  IF next_section # None
                  THEN [current_section |-> next_section, completed_sections |-> done]
                  ELSE ScanKeywords(info, i + 1, message_lower, current_section, done)
         ELSE ScanKeywords(info, i + 1, message_lower, current_section, completed_sections)

\* a mutant of ComputeProgress: the terminal section counts in the denominator
ComputeProgress_AllSections(completed_sections) ==
    IF Len(WORKFLOW_SECTIONS) > 0
    THEN ((Len(completed_sections) * 1000) \div Len(WORKFLOW_SECTIONS)) * 100
    ELSE 0

\* progress = (len(completed_sections) / (len(WORKFLOW_SECTIONS) - 1)) * 100 if WORKFLOW_SECTIONS else 0
\* The quotient is held in thousandths (k/8 is exact in thousandths, as it is
\* in binary floating point), so progress is in thousandths of a percent.
ComputeProgress(completed_sections) ==
    IF Len(WORKFLOW_SECTIONS) > 0
    THEN ((Len(completed_sections) * 1000) \div (Len(WORKFLOW_SECTIONS) - 1)) * 100
    ELSE 0

\* agent.state holds no "estate_planning" metadata yet
NoMeta == [present |-> FALSE]

\* the metadata created for a session that has none
FreshMetadata ==
    [client_state |-> [current_section |-> "CLIENT_INFORMATION", progress |-> 0],
     completed_sections |-> <<>>, present |-> TRUE]

\* a mutant of LoadMetadata: the test reads a key that is always empty
\* (client_data), so the metadata is created anew on every request
LoadMetadata_AlwaysFresh(stored) == FreshMetadata

\* metadata = agent.state.get("estate_planning") or {}; created when empty
LoadMetadata(stored) ==
    IF ~stored.present THEN FreshMetadata ELSE stored

\* the metadata written back after the scan
StepMetadata(metadata, message_text) ==
    LET current_section == metadata.client_state.current_section
        scan == ScanKeywords(SectionInfo(current_section), 1, MessageLower(message_text),
                             current_section, metadata.completed_sections)
    IN  [client_state |-> [current_section |-> scan.current_section,
                           progress |-> ComputeProgress(scan.completed_sections)],
         completed_sections |-> scan.completed_sections,
         present |-> TRUE]

\* the lower-cased response contains a keyword of the section (history only)
ContainsKeywordOf(section, message_text) ==
    \E i \in 1..Len(message_text) :
        \E k \in Range(SectionInfo(section).keywords) :
            SubstringOf(k, LowerWord(message_text[i]))

SectionIndex(section) ==
    IF section \in SectionNames
    THEN CHOOSE i \in 1..Len(WORKFLOW_SECTIONS) : WORKFLOW_SECTIONS[i] = section
    ELSE 0

\* the response contains a keyword of a section after the given one (history only)
ContainsLaterKeyword(section, message_text) ==
    \E i \in 1..Len(WORKFLOW_SECTIONS) :
        /\ i > SectionIndex(section)
        /\ ContainsKeywordOf(WORKFLOW_SECTIONS[i], message_text)

SmLastNone ==
    [kind |-> "none", sid |-> "s1", before |-> NoMeta, prev |-> NoMeta,
     matched |-> FALSE, later |-> FALSE, printed |-> {}]

\* what invoke prints when the agent answers: the request, the creation of
\* metadata for a session without any, and the state read and written
PrintedOnSuccess(stored) ==
    {"Processing request for session", "Successfully processed message for session",
     "Retrieved metadata state with sections", "Updated metadata for session"}
    \cup (IF stored.present THEN {} ELSE {"Creating new metadata for session"})

\* what invoke prints when the agent call raises
PrintedOnError(stored) ==
    {"Processing request for session", "Error in invoke function"}
    \cup (IF stored.present THEN {} ELSE {"Creating new metadata for session"})

\* invoke, the agent answers: metadata is loaded or created, the response is
\* scanned, and the metadata is stored back in agent.state
SMInvoke(sid, message_text) ==
    LET metadata == LoadMetadata(agentState[sid])
        current_section == metadata.client_state.current_section
    IN  /\ agentState' = [agentState EXCEPT ![sid] = StepMetadata(metadata, message_text)]
        /\ smLast' = [kind |-> "ok", sid |-> sid, before |-> agentState[sid], prev |-> metadata,
                      matched |-> ContainsKeywordOf(current_section, message_text),
                      later |-> ContainsLaterKeyword(current_section, message_text),
                      printed |-> PrintedOnSuccess(agentState[sid])]
        /\ UNCHANGED <<mVars, stVars, gwVars, cVars, suVars, lzVars>>

\* invoke, the agent call raises: the metadata created for a new session stays
\* in agent.state, nothing else is stored, and the error response is returned
SMInvokeError(sid) ==
    LET metadata == LoadMetadata(agentState[sid])
    IN  /\ agentState' = [agentState EXCEPT ![sid] = metadata]
        /\ smLast' = [kind |-> "error", sid |-> sid, before |-> agentState[sid], prev |-> metadata,
                      matched |-> FALSE, later |-> FALSE,
                      printed |-> PrintedOnError(agentState[sid])]
        /\ UNCHANGED <<mVars, stVars, gwVars, cVars, suVars, lzVars>>

SMNext ==
    \/ \E sid \in SessionIds, message_text \in Texts : SMInvoke(sid, message_text)
    \/ \E sid \in SessionIds : SMInvokeError(sid)

(***************************************************************************)
(* Claims about the section progression.                                   *)
(***************************************************************************)
SMNow == agentState[smLast.sid]
SMPrevSection == smLast.prev.client_state.current_section
SMNowSection == SMNow.client_state.current_section

\* C1: after a section-transition step the current-section pointer is the
\* section it was before or the immediate successor in WORKFLOW_SECTIONS;
\* it never moves backward and never advances by more than one section,
\* whatever keywords of later sections the response also contains.
C1_PointerMovesAtMostOneForward ==
    smLast.kind = "ok" =>
        /\ SMNowSection \in SectionNames
        /\ SectionIndex(SMNowSection) - SectionIndex(SMPrevSection) \in {0, 1}

\* a response that matches the current section and a later one moved one step
C1_Witness ==
    /\ smLast.kind = "ok"
    /\ smLast.matched
    /\ smLast.later
    /\ SectionIndex(SMNowSection) = SectionIndex(SMPrevSection) + 1

\* C2: when the lower-cased response contains a trigger keyword of the
\* current section, the section is marked completed (held once in the list)
\* and the pointer is set to the section's next; when it contains none, as
\* always in REVIEW_AND_COMPLETION, pointer and completed list are unchanged.
C2_TransitionRule ==
    smLast.kind = "ok" =>
        /\ smLast.matched =>
              /\ SMNowSection = section_transitions[SMPrevSection].next
              /\ Range(SMNow.completed_sections) =
                     Range(smLast.prev.completed_sections) \cup {SMPrevSection}
              /\ Cardinality({i \in 1..Len(SMNow.completed_sections) :
                                SMNow.completed_sections[i] = SMPrevSection}) = 1
        /\ ~smLast.matched =>
              /\ SMNowSection = SMPrevSection
              /\ SMNow.completed_sections = smLast.prev.completed_sections
        /\ SMPrevSection = "REVIEW_AND_COMPLETION" => ~smLast.matched

\* the last non-terminal section was completed by a matching response
C2_Witness ==
    /\ smLast.kind = "ok"
    /\ smLast.matched
    /\ SMPrevSection = "ADDITIONAL_CONSIDERATIONS"
    /\ SMNowSection = "REVIEW_AND_COMPLETION"

\* C3: the progress value stored for a session after a request is never
\* smaller than the value stored for it before that request.
C3_ProgressMonotonic ==
    (smLast.kind # "none" /\ smLast.before.present) =>
        SMNow.client_state.progress >= smLast.before.client_state.progress

\* a session whose progress was above zero rose further
C3_Witness ==
    /\ smLast.kind = "ok"
    /\ smLast.before.present
    /\ smLast.before.client_state.progress > 0
    /\ SMNow.client_state.progress > smLast.before.client_state.progress

NonTerminalSections == SectionNames \ {"REVIEW_AND_COMPLETION"}

\* C4: the stored progress is completed_sections_count / (9 - 1) * 100 (held
\* in thousandths of a percent); it is 0 for a freshly created session and
\* is exactly 100 if and only if all eight non-terminal sections are in the
\* completed list.
C4_ProgressFormula ==
    /\ Len(WORKFLOW_SECTIONS) = 9
    /\ Cardinality(NonTerminalSections) = 8
    /\ \A s \in SessionIds :
          agentState[s].present =>
            /\ agentState[s].client_state.progress * (9 - 1) =
                   Len(agentState[s].completed_sections) * 100 * 1000
            /\ agentState[s].client_state.progress = 100 * 1000
                   <=> NonTerminalSections \subseteq Range(agentState[s].completed_sections)
    /\ (smLast.kind = "error" /\ ~smLast.before.present) =>
            /\ SMNow.present
            /\ SMNow.client_state.progress = 0

\* a session reached 100 percent
C4_Witness ==
    \E s \in SessionIds :
        /\ agentState[s].present
        /\ agentState[s].client_state.progress = 100 * 1000
        /\ Len(agentState[s].completed_sections) = 8

(***************************************************************************)
(* PART 2.  Answer record and merge, src/ep_agent_working_copy.py          *)
(*                                                                         *)
(* A key is the sequence of the segments between its dots, so that         *)
(* "client.fullName" is <<"client", "fullName">> and "." in key is         *)
(* Len(key) > 1.  A value is a string or a list of strings.                *)
(***************************************************************************)
Str(s) == [list |-> FALSE, v |-> <<s>>]
List(items) == [list |-> TRUE, v |-> items]

\* class Answers: the fields in declaration order, each with its alias and
\* whether its default is default_factory=list (else "")
AnswersFields ==
    << [name |-> "full_name", alias |-> <<"client", "fullName">>, list |-> FALSE],
       [name |-> "gender", alias |-> <<"client", "gender">>, list |-> FALSE],
       [name |-> "dob", alias |-> <<"client", "DOB">>, list |-> FALSE],
       [name |-> "aka", alias |-> <<"client", "AKA">>, list |-> FALSE],
       [name |-> "city", alias |-> <<"client", "address", "city">>, list |-> FALSE],
       [name |-> "state", alias |-> <<"client", "address", "state">>, list |-> FALSE],
       [name |-> "email", alias |-> <<"client", "email">>, list |-> FALSE],
       [name |-> "marital_status", alias |-> <<"client", "maritalStatus">>, list |-> FALSE],
       [name |-> "dom", alias |-> <<"client", "DOM">>, list |-> FALSE],
       [name |-> "spouse_full_name", alias |-> <<"spouse", "fullName">>, list |-> FALSE],
       [name |-> "spouse_aka", alias |-> <<"spouse", "AKA">>, list |-> FALSE],
       [name |-> "spouse_dob", alias |-> <<"spouse", "DOB">>, list |-> FALSE],
       [name |-> "has_children", alias |-> <<"client", "hasChildren">>, list |-> FALSE],
       [name |-> "children", alias |-> <<"client", "children">>, list |-> TRUE],
       [name |-> "incapacity_primary_name",
        alias |-> <<"representatives", "incapacity", "primary", "fullName">>, list |-> FALSE],
       [name |-> "incapacity_has_alternates",
        alias |-> <<"representatives", "incapacity", "hasAlternates">>, list |-> FALSE],
       [name |-> "incapacity_alternates",
        alias |-> <<"representatives", "incapacity", "alternates">>, list |-> TRUE],
       [name |-> "after_death_primary_name",
        alias |-> <<"representatives", "afterDeath", "primary", "fullName">>, list |-> FALSE],
       [name |-> "after_death_has_alternates",
        alias |-> <<"representatives", "afterDeath", "hasAlternates">>, list |-> FALSE],
       [name |-> "after_death_alternates",
        alias |-> <<"representatives", "afterDeath", "alternates">>, list |-> TRUE],
       [name |-> "healthcare_primary_name",
        alias |-> <<"representatives", "healthcare", "primary", "fullName">>, list |-> FALSE],
       [name |-> "healthcare_has_alternates",
        alias |-> <<"representatives", "healthcare", "hasAlternates">>, list |-> FALSE],
       [name |-> "healthcare_alternates",
        alias |-> <<"representatives", "healthcare", "alternates">>, list |-> TRUE],
       [name |-> "has_guardians", alias |-> <<"hasGuardians">>, list |-> FALSE],
       [name |-> "guardians", alias |-> <<"guardians">>, list |-> TRUE],
       [name |-> "has_pet_provisions", alias |-> <<"client", "hasPetProvisions">>, list |-> FALSE],
       [name |-> "pets", alias |-> <<"client", "pets">>, list |-> TRUE],
       [name |-> "pets_caretaker", alias |-> <<"client", "petsCaretaker">>, list |-> FALSE],
       [name |-> "pets_care_amount", alias |-> <<"client", "petsCareAmount">>, list |-> FALSE],
       [name |-> "maintain_in_home", alias |-> <<"maintainInHome">>, list |-> FALSE],
       [name |-> "remains_preference", alias |-> <<"remainsPreference">>, list |-> FALSE],
       [name |-> "has_specific_gifts", alias |-> <<"hasSpecificGifts">>, list |-> FALSE],
       [name |-> "specific_gifts", alias |-> <<"specificGifts">>, list |-> TRUE],
       [name |-> "residuary_distribution", alias |-> <<"residuaryDistribution">>, list |-> FALSE],
       [name |-> "residuary_named_beneficiaries",
        alias |-> <<"residuaryNamedBeneficiaries">>, list |-> TRUE] >>

FieldNames == {AnswersFields[i].name : i \in 1..Len(AnswersFields)}
FieldAliases == {AnswersFields[i].alias : i \in 1..Len(AnswersFields)}

\* Field(default="") or Field(default_factory=list)
FieldDefault(f) == IF f.list THEN List(<<>>) ELSE Str("")

\* Answers(): every field at its default
NewAnswers ==
    [n \in FieldNames |->
        FieldDefault(AnswersFields[CHOOSE i \in 1..Len(AnswersFields) : AnswersFields[i].name = n])]

\* what else an Answers instance answers hasattr() for: the methods the class
\* defines (lines 371-392) and the model_dump it calls on itself (line 373)
ModelAttributes ==
    {"to_alias_dict", "update_from_flat_dict", "update_from_dotted_dict", "model_dump"}

\* any("." in key ...): the key holds a literal dot
HasDot(key) == Len(key) > 1

\* hasattr(self, key)
HasAttr(key) ==
    Len(key) = 1 /\ key[1] \in (FieldNames \cup ModelAttributes)

\* a mutant of SetAttr: a list value is added to the stored list
SetAttr_Extend(answers, name, value) ==
    IF name \in FieldNames
    THEN [answers |-> [answers EXCEPT ![name] =
                          IF value.list /\ @.list THEN List(@.v \o value.v) ELSE value],
          raised |-> FALSE]
    ELSE [answers |-> answers, raised |-> TRUE]

\* setattr(self, name, value) on the pydantic model: a field is overwritten
\* with the value as given (no validate_assignment); a name that is no field
\* is refused with ValueError ('"Answers" object has no field ...')
SetAttr(answers, name, value) ==
    IF name \in FieldNames
    THEN [answers |-> [answers EXCEPT ![name] = value], raised |-> FALSE]
    ELSE [answers |-> answers, raised |-> TRUE]

\* Answers.update_from_flat_dict: the loop over data.items(); an exception
\* leaves the keys before it assigned and the keys after it untouched
RECURSIVE update_from_flat_dict(_, _, _)
update_from_flat_dict(answers, data, i) ==
    IF i > Len(data)
    THEN [answers |-> answers, raised |-> FALSE]
    ELSE IF HasAttr(data[i][1])
         THEN LET set == SetAttr(answers, data[i][1][1], data[i][2])
              IN  IF set.raised
                  THEN set
                  ELSE update_from_flat_dict(set.answers, data, i + 1)
         ELSE update_from_flat_dict(answers, data, i + 1)

\* for field_name, field in __fields__.items(): if field.alias == key: ... break
\* the index of the first field with that alias, 0 when there is none
FieldWithAlias(key) ==
    IF key \in FieldAliases
    THEN CHOOSE i \in 1..Len(AnswersFields) :
            /\ AnswersFields[i].alias = key
            /\ \A j \in 1..(i - 1) : AnswersFields[j].alias # key
    ELSE 0

\* the dotted branch of update_answers: every key is looked up as an alias
RECURSIVE UpdateDotted(_, _, _)
UpdateDotted(answers, data, i) ==
    IF i > Len(data)
    THEN [answers |-> answers, raised |-> FALSE]
    ELSE LET f == FieldWithAlias(data[i][1])
         IN  IF f # 0
             THEN LET set == SetAttr(answers, AnswersFields[f].name, data[i][2])
                  IN  IF set.raised THEN set ELSE UpdateDotted(set.answers, data, i + 1)
             ELSE UpdateDotted(answers, data, i + 1)

\* any("." in key for key in answers_data.keys())
AnyDotted(data) ==
    \E i \in 1..Len(data) : HasDot(data[i][1])

UpdateAnswers_FromDefaults(answers, data) ==
    IF AnyDotted(data)
    THEN UpdateDotted(NewAnswers, data, 1)
    ELSE update_from_flat_dict(NewAnswers, data, 1)

\* SessionManager.update_answers on the session's answers
UpdateAnswers(answers, data) ==
    IF AnyDotted(data)
    THEN UpdateDotted(answers, data, 1)
    ELSE update_from_flat_dict(answers, data, 1)

\* Answers.to_alias_dict: model_dump(by_alias=True)
ToAliasDict(answers) ==
    [a \in FieldAliases |-> answers[AnswersFields[FieldWithAlias(a)].name]]

(***************************************************************************)
(* The keys and values the update maps are drawn from: a canonical name    *)
(* and its dotted alias, a canonical name and its alias without a dot, a   *)
(* field whose alias is its name, a key of no field with and without a     *)
(* dot, and the name of a method of the model.                             *)
(***************************************************************************)
InputKeys ==
    { <<"full_name">>, <<"client", "fullName">>,
      <<"has_guardians">>, <<"hasGuardians">>,
      <<"guardians">>,
      <<"nickname">>, <<"client", "nickname">>,
      <<"to_alias_dict">> }

InputValues == { Str("B"), List(<<"x">>) }

InputPairs == InputKeys \X InputValues

\* a dict: no key twice
UpdateMaps ==
    UNION { { m \in [1..n -> InputPairs] :
                \A i, j \in 1..n : i # j => m[i][1] # m[j][1] } : n \in 0..MaxKeys }

\* answers collected before: none, or a name, a flag and a list
CollectedAnswers ==
    [NewAnswers EXCEPT !["full_name"] = Str("A"),
                       !["has_guardians"] = Str("yes"),
                       !["guardians"] = List(<<"g">>)]

StartRecords == {NewAnswers, CollectedAnswers}

\* the schema field a key names, by canonical name or by alias; 0 when none
ResolveKey(key) ==
    IF Len(key) = 1 /\ key[1] \in FieldNames
    THEN CHOOSE i \in 1..Len(AnswersFields) : AnswersFields[i].name = key[1]
    ELSE FieldWithAlias(key)

\* the other spelling of a key: alias for a canonical name, name for an alias
OtherSpelling(key) ==
    IF Len(key) = 1 /\ key[1] \in FieldNames
    THEN AnswersFields[ResolveKey(key)].alias
    ELSE <<AnswersFields[ResolveKey(key)].name>>

KeysOf(data) == {data[i][1] : i \in 1..Len(data)}

\* the maps compared with U: U itself, U with one key in its other spelling,
\* U without one key that names no field
RelatedMaps(data) ==
    {<<"same", data>>}
    \cup { <<"alias", [data EXCEPT ![i] = <<OtherSpelling(data[i][1]), data[i][2]>>]>> :
             i \in {j \in 1..Len(data) :
                      /\ ResolveKey(data[j][1]) # 0
                      /\ OtherSpelling(data[j][1]) \notin KeysOf(data)} }
    \cup { <<"drop", [j \in 1..(Len(data) - 1) |-> IF j < i THEN data[j] ELSE data[j + 1]]>> :
             i \in {j \in 1..Len(data) : ResolveKey(data[j][1]) = 0} }

NotRun == [run |-> FALSE]
Ran(outcome) == [answers |-> outcome.answers, raised |-> outcome.raised, run |-> TRUE]

\* update_answers(session_id, U)
MergeOnce ==
    /\ ~mOnce.run
    /\ mOnce' = Ran(UpdateAnswers(mRec, mU))
    /\ UNCHANGED <<mRec, mU, mV, mRel, mTwice, mOther, smVars, stVars, gwVars, cVars, suVars, lzVars>>

\* update_answers(session_id, U) a second time in a row
MergeTwice ==
    /\ mOnce.run
    /\ ~mTwice.run
    /\ mTwice' = Ran(UpdateAnswers(mOnce.answers, mU))
    /\ UNCHANGED <<mRec, mU, mV, mRel, mOnce, mOther, smVars, stVars, gwVars, cVars, suVars, lzVars>>

\* update_answers(session_id, V) on the same starting record
MergeOther ==
    /\ ~mOther.run
    /\ mOther' = Ran(UpdateAnswers(mRec, mV))
    /\ UNCHANGED <<mRec, mU, mV, mRel, mOnce, mTwice, smVars, stVars, gwVars, cVars, suVars, lzVars>>

MNext == MergeOnce \/ MergeTwice \/ MergeOther

(***************************************************************************)
(* PART 3.  Session store and request handler,                             *)
(*          src/ep_agent_working_copy.py                                   *)
(***************************************************************************)
\* class Progress: the section names, each "not_started" at construction
ProgressKeys ==
    {"personalInfo", "familyInfo", "representatives", "guardians", "pets",
     "endOfLife", "distribution", "completed"}

NewProgress == [k \in ProgressKeys |-> "not_started"]

\* no entry in SessionManager.sessions
NoSession == [present |-> FALSE]

\* SessionState(session_id=session_id)
NewSessionState == [present |-> TRUE, answers |-> NewAnswers, progress |-> NewProgress]

\* a mutant of GetSessionState: the state is constructed on every call
GetSessionState_AlwaysNew(store, session_id) ==
    [store |-> [store EXCEPT ![session_id] = NewSessionState], constructed |-> 1]

GetSessionState_OnlySession(store, session_id) ==
    IF ~store[session_id].present
    THEN [store |-> [s \in DOMAIN store |->
                        IF s = session_id THEN NewSessionState ELSE NoSession],
          constructed |-> 1]
    ELSE [store |-> store, constructed |-> 0]

\* SessionManager.get_session_state: the store after the call, and how many
\* SessionState objects the call constructed
GetSessionState(store, session_id) ==
    IF ~store[session_id].present
    THEN [store |-> [store EXCEPT ![session_id] = NewSessionState], constructed |-> 1]
    ELSE [store |-> store, constructed |-> 0]

\* SessionManager.update_progress on the session's progress: hasattr and setattr
\* per key of progress_data, a function from keys to values
UpdateProgress(progress, progress_data) ==
    [k \in ProgressKeys |->
        IF k \in DOMAIN progress_data THEN progress_data[k] ELSE progress[k]]

\* SessionManager.get_agent_state: the dict the agent is created with
GetAgentState(session, session_id) ==
    [session_id |-> session_id,
     is_model |-> FALSE,
     answers_dict |-> ToAliasDict(session.answers),
     answers_model |-> NewAnswers,
     progress |-> session.progress]

Slots == {"r1"}

NoRequest == [busy |-> FALSE]

\* the update maps requests carry: none, an alias, a list field, a method name
IncomingMaps ==
    { <<>>,
      << <<<<"client", "fullName">>, Str("B")>> >>,
      << <<<<"guardians">>, List(<<"x">>)>> >>,
      << <<<<"to_alias_dict">>, Str("B")>> >> }

\* the keys and values the model calls manage_state with
ToolKeys ==
    { <<"hasGuardians">>, <<"client", "nickname">>,
      <<"progress", "personalInfo">>, <<"progress", "nope">>, <<"session_id">> }

ToolValues == {"yes"}

\* the fields the keys of an update map name
NamedFields(data) ==
    {AnswersFields[ResolveKey(data[i][1])].name :
        i \in {j \in 1..Len(data) : ResolveKey(data[j][1]) # 0}}

\* the set branch of manage_state on the agent's state; stored tells whether
\* agent.state.get/set accepted the call or raised (an exception is caught and
\* turned into an error string, the state as it was)
ManageStateSet(state, key, value, stored) ==
    IF key[1] = "progress"
    THEN IF Len(key) = 2 /\ key[2] \in ProgressKeys /\ stored
         THEN [state EXCEPT !.progress = [@ EXCEPT ![key[2]] = value]]
         ELSE state
    ELSE IF key = <<"session_id">>
    THEN IF stored THEN [state EXCEPT !.session_id = value] ELSE state
    ELSE LET answers == IF state.is_model THEN state.answers_model ELSE NewAnswers
             f == FieldWithAlias(key)
         IN  IF f # 0 /\ stored
             THEN [state EXCEPT !.is_model = TRUE,
                                !.answers_model =
                                    SetAttr(answers, AnswersFields[f].name, Str(value)).answers]
             ELSE state

\* the field a manage_state set names, if it names one
ToolNamedFields(key) ==
    IF key[1] # "progress" /\ key # <<"session_id">> /\ FieldWithAlias(key) # 0
    THEN {AnswersFields[FieldWithAlias(key)].name}
    ELSE {}

\* the write-back of invoke (lines 520-537) on the session
WriteBack(session, state) ==
    [present |-> TRUE,
     answers |-> IF state.is_model THEN state.answers_model ELSE session.answers,
     progress |-> UpdateProgress(session.progress, state.progress)]

StLastNone == [op |-> "none", sid |-> "s1", before |-> NoSession, named |-> {}]

\* session_manager.get_session_state(session_id)
StGetSessionState(sid) ==
    LET got == GetSessionState(sessions, sid)
    IN  /\ sessions' = got.store
        /\ created' = [created EXCEPT ![sid] = @ + got.constructed]
        /\ stLast' = [op |-> "get_session_state", sid |-> sid,
                      before |-> sessions[sid], named |-> {}]
        /\ UNCHANGED <<inflight, smVars, mVars, gwVars, cVars, suVars, lzVars>>

\* invoke up to the agent call: the incoming answers are merged, the agent
\* state is read from the session, and the agent is created with it; when the
\* merge raises, the request ends there with the exception
StInvokeBegin(r, sid, incoming) ==
    /\ ~inflight[r].busy
    /\ LET got == GetSessionState(sessions, sid)
           merged == IF Len(incoming) > 0
                     THEN UpdateAnswers(got.store[sid].answers, incoming)
                     ELSE [answers |-> got.store[sid].answers, raised |-> FALSE]
           after == [got.store EXCEPT ![sid].answers = merged.answers]
       IN  /\ sessions' = after
           /\ created' = [created EXCEPT ![sid] = @ + got.constructed]
           /\ inflight' = IF merged.raised
                          THEN inflight
                          ELSE [inflight EXCEPT ![r] =
                                  [busy |-> TRUE, sid |-> sid,
                                   state |-> GetAgentState(after[sid], sid), named |-> {}]]
           /\ stLast' = [op |-> IF merged.raised THEN "invoke_raised" ELSE "invoke_begin",
                         sid |-> sid, before |-> sessions[sid],
                         named |-> NamedFields(incoming)]
    /\ UNCHANGED <<smVars, mVars, gwVars, cVars, suVars, lzVars>>

\* the agent calls manage_state(key, value) during the turn
StManageStateSet(r, key, value, stored) ==
    /\ inflight[r].busy
    /\ inflight' = [inflight EXCEPT
                      ![r].state = ManageStateSet(@, key, value, stored),
                      ![r].named = @ \cup ToolNamedFields(key)]
    /\ stLast' = [op |-> "manage_state", sid |-> inflight[r].sid,
                  before |-> sessions[inflight[r].sid], named |-> ToolNamedFields(key)]
    /\ UNCHANGED <<sessions, created, smVars, mVars, gwVars, cVars, suVars, lzVars>>

\* invoke after the agent call: the agent's state is written back to the
\* session and the response is built from the session
StInvokeEnd(r) ==
    /\ inflight[r].busy
    /\ LET sid == inflight[r].sid
           got == GetSessionState(sessions, sid)
       IN  /\ sessions' = [got.store EXCEPT ![sid] = WriteBack(@, inflight[r].state)]
           /\ created' = [created EXCEPT ![sid] = @ + got.constructed]
           /\ stLast' = [op |-> "invoke_end", sid |-> sid, before |-> sessions[sid],
                         named |-> inflight[r].named]
    /\ inflight' = [inflight EXCEPT ![r] = NoRequest]
    /\ UNCHANGED <<smVars, mVars, gwVars, cVars, suVars, lzVars>>

\* the agent call (or structured_output) raises: the request ends without
\* the write-back
StInvokeRaise(r) ==
    /\ inflight[r].busy
    /\ inflight' = [inflight EXCEPT ![r] = NoRequest]
    /\ stLast' = [op |-> "invoke_raised", sid |-> inflight[r].sid,
                  before |-> sessions[inflight[r].sid], named |-> {}]
    /\ UNCHANGED <<sessions, created, smVars, mVars, gwVars, cVars, suVars, lzVars>>

StNext ==
    \/ \E sid \in SessionIds : StGetSessionState(sid)
    \/ \E r \in Slots, sid \in SessionIds, incoming \in IncomingMaps :
          StInvokeBegin(r, sid, incoming)
    \/ \E r \in Slots, key \in ToolKeys, value \in ToolValues, stored \in BOOLEAN :
          StManageStateSet(r, key, value, stored)
    \/ \E r \in Slots : StInvokeEnd(r)
    \/ \E r \in Slots : StInvokeRaise(r)

(***************************************************************************)
(* PART 4.  src/ep_agent.py: get_access_token, create_agent, invoke.       *)
(*                                                                         *)
(* The token capability (gateway_client.get_access_token_for_cognito) and  *)
(* the gateway are outside the program: what a call to them yields is      *)
(* drawn.  A sleep is recorded with its length in tenths of a second.      *)
(***************************************************************************)
\* def get_access_token(gateway_client, client_info, max_retries=3)
DefaultMaxRetries == 3
\* largest max_retries a direct call of get_access_token passes
MaxRetriesArg == 3

\* str(e) of the exceptions a capability raises
ErrorStrings == {"429", "Too Many Requests", "invalid_client"}
\* what one call of the token capability yields: a token, or an exception
TokenResults == {"access_token"} \cup ErrorStrings

\* "429" in error_str
Mentions429(error_str) == error_str = "429"
\* "Too Many Requests" in error_str
MentionsTooManyRequests(error_str) == error_str = "Too Many Requests"

IsRateLimit_AnyError(error_str) == TRUE

\* ("429" in error_str or "Too Many Requests" in error_str)
IsRateLimit(error_str) == Mentions429(error_str) \/ MentionsTooManyRequests(error_str)

MayRetry_OneShort(attempt, max_retries) == attempt < max_retries - 2

\* attempt < max_retries - 1
MayRetry(attempt, max_retries) == attempt < max_retries - 1

RECURSIVE Pow2(_)
Pow2(n) == IF n = 0 THEN 1 ELSE 2 * Pow2(n - 1)

\* uniform(0, 1), in tenths of a second: its least and its greatest value
Jitters == {0, 10}
Backoff_NoExponent(attempt, jitter) == 10 + jitter

\* backoff = (2 ** attempt) + uniform(0, 1), in tenths of a second
Backoff(attempt, jitter) == Pow2(attempt) * 10 + jitter

\* error = None
NoError == [text |-> "None"]

TokIdle == [pc |-> "idle"]
\* entering get_access_token: the loop is at attempt 0, nothing was called
TokStart(max_retries) ==
    [pc |-> "loop", max_retries |-> max_retries, attempt |-> 0, events |-> <<>>,
     access_token |-> None, error |-> NoError]

Call(result) == [ev |-> "call", result |-> result]
Sleep(backoff) == [ev |-> "sleep", backoff |-> backoff]
NumCalls(events) == Cardinality({i \in DOMAIN events : events[i].ev = "call"})
NumSleeps(events) == Cardinality({i \in DOMAIN events : events[i].ev = "sleep"})

ReturnToken_FallThrough(t, result) ==
    [t EXCEPT !.attempt = @ + 1, !.events = Append(@, Call(result))]

\* access_token = ...get_access_token_for_cognito(client_info); return access_token, None
ReturnToken(t, result) ==
    [t EXCEPT !.pc = "done", !.events = Append(@, Call(result)),
              !.access_token = result, !.error = NoError]

\* error_msg = f"Error accessing gateway: {error_str}"
ErrorAccessingGateway(error_str) ==
    [text |-> "Error accessing gateway", arg |-> error_str]
\* f"Failed to get access token after {max_retries} attempts"
FailedAfterAttempts(max_retries) ==
    [text |-> "Failed to get access token after attempts", arg |-> max_retries]

\* one turn of the loop of get_access_token, or the statement after the loop;
\* result is what the capability yields if it is called in this turn
TokenStep(t, result, jitter) ==
    IF t.attempt >= t.max_retries
    THEN [t EXCEPT !.pc = "done", !.access_token = None,
                   !.error = FailedAfterAttempts(t.max_retries)]
    ELSE IF result \notin ErrorStrings
    THEN ReturnToken(t, result)
    ELSE IF IsRateLimit(result) /\ MayRetry(t.attempt, t.max_retries)
    THEN [t EXCEPT !.attempt = @ + 1,
                   !.events = @ \o <<Call(result), Sleep(Backoff(t.attempt, jitter))>>]
    ELSE [t EXCEPT !.pc = "done", !.events = Append(@, Call(result)),
                   !.access_token = None, !.error = ErrorAccessingGateway(result)]

(***************************************************************************)
(* create_agent and invoke of src/ep_agent.py.                             *)
(***************************************************************************)
\* max_retries = 3, the MCP client loop of create_agent
McpMaxRetries == 3
\* most pages the gateway's tool catalogue has
MaxPages == 2

\* what open(config_path) and json.load find: no readable JSON file, or a
\* dict in which "gateway_url" and "cognito_info" are present or not
ConfigFiles ==
    {[readable |-> FALSE]} \cup
    [readable : {TRUE},
     gateway_url : {"absent", "", "https://gateway"},
     cognito_info : {"absent", "no client_info", "empty client_info", "client_info"}]

\* try: json.load(f)  except Exception: the default configuration
load_configuration(file) ==
    IF file.readable
    THEN [gateway_url |-> file.gateway_url, cognito_info |-> file.cognito_info]
    ELSE [gateway_url |-> "", cognito_info |-> "empty client_info"]

\* "cognito_info" in config and "client_info" in config["cognito_info"]
HasClientInfo(config) == config.cognito_info \in {"empty client_info", "client_info"}

\* config.get("gateway_url", "https://your-gateway-url.amazonaws.com")
ConfigGetGatewayUrl(config) ==
    IF config.gateway_url = "absent"
    THEN "https://your-gateway-url.amazonaws.com"
    ELSE config.gateway_url

\* the capability cannot issue a token for credentials it was not given
ResultsFor(config) ==
    IF config.cognito_info = "client_info" THEN TokenResults ELSE ErrorStrings

\* the gateway's tool catalogue, as the pages it serves
ToolPages == {<<>>, <<"get_questions">>, <<"save_answers", "search">>}
Catalogues == UNION {[1..n -> ToolPages] : n \in 1..MaxPages}

\* client.list_tools_sync(): one request for the page at the cursor
ListToolsSync(pages, cursor) ==
    [tools |-> pages[cursor],
     next |-> IF cursor < Len(pages) THEN cursor + 1 ELSE 0]

\* tools = client.list_tools_sync(): the first page and nothing else
ListTools(pages) ==
    [tools |-> ListToolsSync(pages, 1).tools, fetches |-> 1]

\* what one turn of the MCP loop yields: the tools, or an exception
McpResults == {"tools"} \cup ErrorStrings

CaIdle == [pc |-> "idle"]
\* agent = None
NoAgent == [present |-> FALSE]
\* no request has ended since the last one was entered
AgLastNone == [kind |-> "none"]

\* how a request ends: a returned dict, or an exception leaving invoke
RequestEnd(kind, text, c, token_calls, answers) ==
    [kind |-> kind, text |-> text, session_id |-> c.session_id,
     supplied |-> c.answers, answers |-> answers,
     created |-> c.created, file |-> c.file,
     token_calls |-> token_calls, mcp_events |-> c.events,
     catalogue |-> c.catalogue, fetches |-> c.fetches]

\* create_agent returned None: raise Exception("Failed to initialize agent")
AgFail(c, token_calls) ==
    /\ agLast' = RequestEnd("raised", "Failed to initialize agent", c, token_calls, None)
    /\ ca' = CaIdle
    /\ tok' = TokIdle
    /\ UNCHANGED agent

\* invoke(payload, context) is entered; the agent is created on first use
AgInvoke(has_prompt, user_answers, session_id) ==
    /\ ca = CaIdle
    /\ tok = TokIdle
    /\ ca' = [pc |-> IF agent = NoAgent THEN "create_agent" ELSE "respond",
              has_prompt |-> has_prompt, answers |-> user_answers,
              session_id |-> session_id, created |-> agent = NoAgent,
              file |-> None, config |-> None, attempt |-> 0, events |-> <<>>,
              token_calls |-> 0, catalogue |-> <<>>, fetches |-> 0]
    /\ agLast' = AgLastNone
    /\ UNCHANGED <<tok, agent, smVars, mVars, stVars, cVars, suVars, lzVars>>

\* create_agent: config = load_configuration(config_path) and the test on it
AgLoadConfiguration(file) ==
    /\ ca.pc = "create_agent"
    /\ LET config == load_configuration(file)
           c == [ca EXCEPT !.file = file, !.config = config]
       IN  IF HasClientInfo(config)
           THEN /\ ca' = [c EXCEPT !.pc = "get_access_token"]
                /\ tok' = TokStart(DefaultMaxRetries)
                /\ UNCHANGED <<agent, agLast>>
           ELSE AgFail(c, 0)
    /\ UNCHANGED <<smVars, mVars, stVars, cVars, suVars, lzVars>>

\* create_agent: one turn of get_access_token(gateway_client, client_info)
AgTokenStep(result, jitter) ==
    /\ ca.pc = "get_access_token"
    /\ tok.pc = "loop"
    /\ result \in ResultsFor(ca.config)
    /\ tok' = TokenStep(tok, result, jitter)
    /\ UNCHANGED <<ca, agent, agLast, smVars, mVars, stVars, cVars, suVars, lzVars>>

\* create_agent: gateway_url is read if there is a token;
\* if not access_token or not gateway_url: return None
AgCheckConfiguration ==
    /\ ca.pc = "get_access_token"
    /\ tok.pc = "done"
    /\ LET gateway_url == IF tok.access_token # None
                          THEN ConfigGetGatewayUrl(ca.config) ELSE None
       IN  IF tok.access_token = None \/ gateway_url \in {None, ""}
           THEN AgFail(ca, NumCalls(tok.events))
           ELSE /\ ca' = [ca EXCEPT !.pc = "mcp", !.token_calls = NumCalls(tok.events)]
                /\ tok' = TokIdle
                /\ UNCHANGED <<agent, agLast>>
    /\ UNCHANGED <<smVars, mVars, stVars, cVars, suVars, lzVars>>

\* create_agent: one turn of the loop that starts the MCP client, lists the
\* tools and builds the Agent
AgMcpAttempt(result, pages, jitter) ==
    /\ ca.pc = "mcp"
    /\ IF result \notin ErrorStrings
       THEN LET listing == ListTools(pages)
            IN  /\ agent' = [present |-> TRUE, tools |-> listing.tools]
                /\ ca' = [ca EXCEPT !.pc = "respond",
                                    !.events = Append(@, Call(result)),
                                    !.catalogue = pages,
                                    !.fetches = listing.fetches]
                /\ UNCHANGED <<tok, agLast>>
       ELSE IF IsRateLimit(result) /\ MayRetry(ca.attempt, McpMaxRetries)
       THEN /\ ca' = [ca EXCEPT !.attempt = @ + 1,
                                !.events = @ \o <<Call(result),
                                                  Sleep(Backoff(ca.attempt, jitter))>>]
            /\ UNCHANGED <<tok, agent, agLast>>
       ELSE IF ca.attempt = McpMaxRetries - 1
       THEN AgFail([ca EXCEPT !.events = Append(@, Call(result))], ca.token_calls)
       ELSE /\ ca' = [ca EXCEPT !.attempt = @ + 1,
                                !.events = Append(@, Call(result))]
            /\ UNCHANGED <<tok, agent, agLast>>
    /\ UNCHANGED <<smVars, mVars, stVars, cVars, suVars, lzVars>>

\* invoke after the agent exists: payload["prompt"], the session id test,
\* agent(user_message) and the response dict
AgRespond(agent_result) ==
    /\ ca.pc = "respond"
    /\ agLast' =
         IF ~ca.has_prompt
         THEN RequestEnd("raised", "KeyError: prompt", ca, ca.token_calls, None)
         ELSE IF ca.session_id = None
         THEN RequestEnd("raised", "Session ID is required in the context",
                         ca, ca.token_calls, None)
         ELSE IF agent_result = "raises"
         THEN RequestEnd("raised", "agent", ca, ca.token_calls, None)
         ELSE RequestEnd("response", agent_result, ca, ca.token_calls,
                         ToAliasDict(NewAnswers))
    /\ ca' = CaIdle
    /\ UNCHANGED <<tok, agent, smVars, mVars, stVars, cVars, suVars, lzVars>>

AgNext ==
    \/ \E has_prompt \in BOOLEAN, user_answers \in IncomingMaps,
          session_id \in {None, "s1"} :
          AgInvoke(has_prompt, user_answers, session_id)
    \/ \E file \in ConfigFiles : AgLoadConfiguration(file)
    \/ \E result \in TokenResults, jitter \in Jitters : AgTokenStep(result, jitter)
    \/ AgCheckConfiguration
    \/ \E result \in McpResults, pages \in Catalogues, jitter \in Jitters :
          AgMcpAttempt(result, pages, jitter)
    \/ \E agent_result \in {"text", "raises"} : AgRespond(agent_result)

\* get_access_token called on its own takes one turn
TkStep(result, jitter) ==
    /\ ca = CaIdle
    /\ tok.pc = "loop"
    /\ tok' = TokenStep(tok, result, jitter)
    /\ UNCHANGED <<ca, agent, agLast, smVars, mVars, stVars, cVars, suVars, lzVars>>

TkNext == \E result \in TokenResults, jitter \in Jitters : TkStep(result, jitter)

(***************************************************************************)
(* PART 5.  src/ep_agent_working_copy.py: two requests for one session.    *)
(*                                                                         *)
(* invoke takes no lock and the entrypoint is served from a thread pool:   *)
(* the steps of two requests interleave.  Each request keeps what it was   *)
(* given and what its agent did, so that it can be replayed on its own.    *)
(***************************************************************************)
\* most manage_state calls the agent makes in one turn
MaxToolCalls == 1

CSlots == {"r1", "r2"}
\* the session both requests name
CSession == "s1"

\* the session before the two requests: none, a new one, one with answers
\* and progress collected
StartSessions ==
    {NoSession,
     NewSessionState,
     [present |-> TRUE,
      answers |-> [NewAnswers EXCEPT !["guardians"] = List(<<"x">>)],
      progress |-> [NewProgress EXCEPT !["personalInfo"] = "completed"]]}

\* the keys the model calls manage_state with in these requests
CToolKeys == {<<"hasGuardians">>, <<"progress", "personalInfo">>}

CIdle == [pc |-> "idle"]

\* invoke up to the agent call (lines 488-506): get_session_state,
\* update_answers on the stored record, get_agent_state
InvokeBegin(session, incoming) ==
    LET s0 == IF session.present THEN session ELSE NewSessionState
        merged == IF Len(incoming) > 0
                  THEN UpdateAnswers(s0.answers, incoming)
                  ELSE [answers |-> s0.answers, raised |-> FALSE]
        after == [s0 EXCEPT !.answers = merged.answers]
    IN  [session |-> after, raised |-> merged.raised,
         state |-> GetAgentState(after, CSession)]

\* the manage_state calls of one turn, applied in order
RECURSIVE ManageStateCalls(_, _, _)
ManageStateCalls(state, calls, n) ==
    IF n = 0
    THEN state
    ELSE ManageStateSet(ManageStateCalls(state, calls, n - 1),
                        calls[n][1], "yes", calls[n][2])

\* invoke as a whole on a session, with nothing else running: what the
\* request was given, what its agent did and how it ended
RunAlone(session, req) ==
    LET begun == InvokeBegin(session, req.incoming)
    IN  IF req.pc = "raised"
        THEN begun.session
        ELSE WriteBack(begun.session,
                       ManageStateCalls(begun.state, req.calls, Len(req.calls)))

\* a request enters invoke
CInvokeBegin(r, incoming) ==
    /\ cReq[r].pc = "idle"
    /\ LET begun == InvokeBegin(sessions[CSession], incoming)
       IN  /\ sessions' = [sessions EXCEPT ![CSession] = begun.session]
           /\ cReq' = [cReq EXCEPT ![r] =
                         [pc |-> IF begun.raised THEN "raised" ELSE "agent",
                          incoming |-> incoming, calls |-> <<>>,
                          state |-> begun.state, start |-> sessions[CSession]]]
    /\ UNCHANGED <<cStart, inflight, created, stLast, smVars, mVars, gwVars, suVars, lzVars>>

\* its agent calls manage_state(key, "yes")
CManageState(r, key, stored) ==
    /\ cReq[r].pc = "agent"
    /\ Len(cReq[r].calls) < MaxToolCalls
    /\ cReq' = [cReq EXCEPT ![r].state = ManageStateSet(@, key, "yes", stored),
                            ![r].calls = Append(@, <<key, stored>>)]
    /\ UNCHANGED <<cStart, stVars, smVars, mVars, gwVars, suVars, lzVars>>

\* the agent call returned: the write-back (lines 520-537)
CInvokeEnd(r) ==
    /\ cReq[r].pc = "agent"
    /\ sessions' = [sessions EXCEPT ![CSession] = WriteBack(@, cReq[r].state)]
    /\ cReq' = [cReq EXCEPT ![r].pc = "done"]
    /\ UNCHANGED <<cStart, inflight, created, stLast, smVars, mVars, gwVars, suVars, lzVars>>

\* the agent call raised: invoke is left at line 509
CInvokeRaise(r) ==
    /\ cReq[r].pc = "agent"
    /\ cReq' = [cReq EXCEPT ![r].pc = "raised"]
    /\ UNCHANGED <<cStart, stVars, smVars, mVars, gwVars, suVars, lzVars>>

CNext ==
    \/ \E r \in CSlots, incoming \in IncomingMaps : CInvokeBegin(r, incoming)
    \/ \E r \in CSlots, key \in CToolKeys, stored \in BOOLEAN :
          CManageState(r, key, stored)
    \/ \E r \in CSlots : CInvokeEnd(r)
    \/ \E r \in CSlots : CInvokeRaise(r)

(***************************************************************************)
(* PART 6.  src/settings.py (Settings) and setup_m2m_credential_provider   *)
(* of src/setup_identity.py and src/infrastructure/setup_identity.py.      *)
(*                                                                         *)
(* The environment gives each variable no value, the empty string or a     *)
(* value.  The identity service is outside the program: what the create    *)
(* call yields is drawn.                                                   *)
(***************************************************************************)
EnvVars ==
    {"AWS_REGION", "AGENT_NAME", "MODEL_ID", "COGNITO_USER_POOL_ID",
     "COGNITO_CLIENT_ID", "COGNITO_CLIENT_SECRET", "GATEWAY_URL", "M2M_PROVIDER_NAME"}
\* the variable is not in os.environ
Unset == "<unset>"
Environments == [EnvVars -> {Unset, "", "v"}]

\* os.getenv(var_name, default)
OsGetenv(e, var_name, default) == IF e[var_name] = Unset THEN default ELSE e[var_name]


\* Settings._get_env: required and value is None
IsMissing(required, value) == required /\ value = None

\* Settings._get_env: the value, and the name if it is tracked as missing
GetEnv(e, var_name, default, required) ==
    LET value == OsGetenv(e, var_name, default)
    IN  [value |-> value,
         missing |-> IF IsMissing(required, value) THEN <<var_name>> ELSE <<>>]

\* if self.REGION and self.COGNITO_USER_POOL_ID
Truthy(value) == value \notin {None, ""}

NoSettings == [constructed |-> FALSE]

\* Settings.__init__: the attributes, the names tracked as missing in the
\* order of the _get_env calls, and whether _raise_missing_error was called
\* (the message of ConfigurationError is the names joined by ", ")
NewSettings(e) ==
    LET region == GetEnv(e, "AWS_REGION", "us-east-1", TRUE)
        agent_name == GetEnv(e, "AGENT_NAME", None, TRUE)
        model_id == GetEnv(e, "MODEL_ID", "anthropic.claude-v2", FALSE)
        pool == GetEnv(e, "COGNITO_USER_POOL_ID", None, TRUE)
        client_id == GetEnv(e, "COGNITO_CLIENT_ID", None, TRUE)
        secret == GetEnv(e, "COGNITO_CLIENT_SECRET", None, TRUE)
        url == GetEnv(e, "GATEWAY_URL", None, TRUE)
        provider == GetEnv(e, "M2M_PROVIDER_NAME", "gateway-m2m-provider", FALSE)
        derived == Truthy(region.value) /\ Truthy(pool.value)
        missing == region.missing \o agent_name.missing \o model_id.missing
                   \o pool.missing \o client_id.missing \o secret.missing
                   \o url.missing \o provider.missing
                   \o (IF derived THEN <<>> ELSE <<"DISCOVERY_URL">>)
    IN  [constructed |-> TRUE,
         REGION |-> region.value, AGENT_NAME |-> agent_name.value,
         MODEL_ID |-> model_id.value, COGNITO_USER_POOL_ID |-> pool.value,
         COGNITO_CLIENT_ID |-> client_id.value, COGNITO_CLIENT_SECRET |-> secret.value,
         GATEWAY_URL |-> url.value, M2M_PROVIDER_NAME |-> provider.value,
         DISCOVERY_URL |-> IF derived THEN <<region.value, pool.value>> ELSE <<>>,
         missing_required |-> missing,
         raised |-> Len(missing) > 0]

\* Settings.validate
validate(s) == Len(s.missing_required) = 0

\* agent/config/settings.py, Settings.validate: the client secret and the
\* gateway URL are not None
ConfigSettingsValidate(e) ==
    /\ OsGetenv(e, "COGNITO_CLIENT_SECRET", None) # None
    /\ OsGetenv(e, "GATEWAY_URL", None) # None

\* what identity_client.create_oauth2_credential_provider yields: the
\* provider, or an exception with this text
CreateResults == {"provider", "ResourceConflictException: already exists", "AccessDeniedException"}
\* "already exists" in str(e)
MentionsAlreadyExists(text) == text = "ResourceConflictException: already exists"

\* the two copies of setup_m2m_credential_provider
SetupVariants == {"setup_identity", "infrastructure/setup_identity"}

IdpIdle == [run |-> FALSE]

\* the except branch for "already exists": src/setup_identity.py returns a
\* dict naming the provider, src/infrastructure/setup_identity.py prints and
\* falls off the end of the function
AlreadyExistsResult(variant, provider_name) ==
    IF variant = "setup_identity"
    THEN [is_none |-> FALSE, name |-> provider_name, status |-> "already_exists"]
    ELSE [is_none |-> TRUE]

\* setup_m2m_credential_provider as a whole
SetupM2mCredentialProvider(variant, e, create_result) ==
    LET s == NewSettings(e)
        refused == IF variant = "setup_identity" THEN s.raised ELSE ~ConfigSettingsValidate(e)
        provider_name == OsGetenv(e, "M2M_PROVIDER_NAME", "gateway-m2m-provider")
    IN  IF refused
        THEN [run |-> TRUE, variant |-> variant, create_calls |-> 0, raised |-> TRUE,
              create_result |-> create_result, result |-> [is_none |-> TRUE]]
        ELSE IF create_result = "provider"
        THEN [run |-> TRUE, variant |-> variant, create_calls |-> 1, raised |-> FALSE,
              create_result |-> create_result,
              result |-> [is_none |-> FALSE, providerArn |-> "arn"]]
        ELSE IF MentionsAlreadyExists(create_result)
        THEN [run |-> TRUE, variant |-> variant, create_calls |-> 1, raised |-> FALSE,
              create_result |-> create_result,
              result |-> AlreadyExistsResult(variant, provider_name)]
        ELSE [run |-> TRUE, variant |-> variant, create_calls |-> 1, raised |-> TRUE,
              create_result |-> create_result, result |-> [is_none |-> TRUE]]

\* Settings() is constructed from the environment
SuSettings ==
    /\ ~settings.constructed
    /\ settings' = NewSettings(env)
    /\ UNCHANGED <<env, idp, smVars, mVars, stVars, gwVars, cVars, lzVars>>

\* setup_m2m_credential_provider() is called
SuSetupIdentity(variant, create_result) ==
    /\ ~idp.run
    /\ idp' = SetupM2mCredentialProvider(variant, env, create_result)
    /\ UNCHANGED <<env, settings, smVars, mVars, stVars, gwVars, cVars, lzVars>>

SuNext ==
    \/ SuSettings
    \/ \E variant \in SetupVariants, create_result \in CreateResults :
          SuSetupIdentity(variant, create_result)

(***************************************************************************)
(* PART 7.  src/ep_agent.py: the lazy creation of the module-level agent   *)
(* by requests that overlap.  invoke takes no lock; create_agent, whose    *)
(* steps PART 4 models, is here one step that yields an Agent or None.     *)
(***************************************************************************)
\* most requests one worker thread handles
MaxRequests == 2

LzSlots == {"w1", "w2"}
LzIdle == [pc |-> "idle", handled |-> 0]

\* invoke is entered: if agent is None
LzEnter(w) ==
    /\ lz[w].pc = "idle"
    /\ lz[w].handled < MaxRequests
    /\ lz' = [lz EXCEPT ![w].pc = IF agent = NoAgent THEN "create_agent" ELSE "respond"]
    /\ UNCHANGED <<agent, lzInstalls, tok, ca, agLast, smVars, mVars, stVars, cVars, suVars>>

\* agent = create_agent(); if not agent: raise Exception(...)
LzCreateAgent(w, returned_agent) ==
    /\ lz[w].pc = "create_agent"
    /\ agent' = IF returned_agent THEN [present |-> TRUE, tools |-> <<>>] ELSE NoAgent
    /\ lzInstalls' = Append(lzInstalls, IF returned_agent THEN w ELSE None)
    /\ lz' = [lz EXCEPT ![w] = IF returned_agent
                                THEN [@ EXCEPT !.pc = "respond"]
                                ELSE [pc |-> "idle", handled |-> @.handled + 1]]
    /\ UNCHANGED <<tok, ca, agLast, smVars, mVars, stVars, cVars, suVars>>

\* the rest of invoke: agent(user_message) on the module-level agent and the
\* response, or an exception
LzRespond(w) ==
    /\ lz[w].pc = "respond"
    /\ lz' = [lz EXCEPT ![w] = [pc |-> "idle", handled |-> @.handled + 1]]
    /\ UNCHANGED <<agent, lzInstalls, tok, ca, agLast, smVars, mVars, stVars, cVars, suVars>>

LzNext ==
    \/ \E w \in LzSlots : LzEnter(w)
    \/ \E w \in LzSlots, returned_agent \in BOOLEAN :
          LzCreateAgent(w, returned_agent)
    \/ \E w \in LzSlots : LzRespond(w)

(***************************************************************************)
(* The specifications.  Each moves its own part and holds the others.      *)
(***************************************************************************)
\* no session has metadata, no request was handled (ep_agent_sample)
\* SessionManager() holds no session, no request is being handled (working copy)
SectionsInit ==
    /\ agentState = [s \in SessionIds |-> NoMeta]
    /\ smLast = SmLastNone
    /\ mRec = <<>>
    /\ mU = <<>>
    /\ mV = <<>>
    /\ mRel = "same"
    /\ mOnce = NotRun
    /\ mTwice = NotRun
    /\ mOther = NotRun
    /\ sessions = [s \in SessionIds |-> NoSession]
    /\ inflight = [r \in Slots |-> NoRequest]
    /\ created = [s \in SessionIds |-> 0]
    /\ stLast = StLastNone
    /\ tok = TokIdle
    /\ ca = CaIdle
    /\ agent = NoAgent
    /\ agLast = AgLastNone
    /\ env = [v \in EnvVars |-> Unset]
    /\ settings = NoSettings
    /\ idp = IdpIdle
    /\ lz = [w \in LzSlots |-> LzIdle]
    /\ lzInstalls = <<>>
    /\ cReq = [r \in CSlots |-> CIdle]
    /\ cStart = NoSession

\* the record, the update map U and the map it is compared with are drawn
MergeInit ==
    /\ agentState = [s \in SessionIds |-> NoMeta]
    /\ smLast = SmLastNone
    /\ mRec \in StartRecords
    /\ mU \in UpdateMaps
    /\ \E r \in RelatedMaps(mU) : mRel = r[1] /\ mV = r[2]
    /\ mOnce = NotRun
    /\ mTwice = NotRun
    /\ mOther = NotRun
    /\ sessions = [s \in SessionIds |-> NoSession]
    /\ inflight = [r \in Slots |-> NoRequest]
    /\ created = [s \in SessionIds |-> 0]
    /\ stLast = StLastNone
    /\ tok = TokIdle
    /\ ca = CaIdle
    /\ agent = NoAgent
    /\ agLast = AgLastNone
    /\ env = [v \in EnvVars |-> Unset]
    /\ settings = NoSettings
    /\ idp = IdpIdle
    /\ lz = [w \in LzSlots |-> LzIdle]
    /\ lzInstalls = <<>>
    /\ cReq = [r \in CSlots |-> CIdle]
    /\ cStart = NoSession

SpecSections == SectionsInit /\ [][SMNext]_vars

SpecMerge == MergeInit /\ [][MNext]_vars

SpecStore == SectionsInit /\ [][StNext]_vars

\* get_access_token is entered with a drawn max_retries
TokenInit ==
    /\ agentState = [s \in SessionIds |-> NoMeta]
    /\ smLast = SmLastNone
    /\ mRec = <<>>
    /\ mU = <<>>
    /\ mV = <<>>
    /\ mRel = "same"
    /\ mOnce = NotRun
    /\ mTwice = NotRun
    /\ mOther = NotRun
    /\ sessions = [s \in SessionIds |-> NoSession]
    /\ inflight = [r \in Slots |-> NoRequest]
    /\ created = [s \in SessionIds |-> 0]
    /\ stLast = StLastNone
    /\ tok \in {TokStart(max_retries) : max_retries \in 0..MaxRetriesArg}
    /\ ca = CaIdle
    /\ agent = NoAgent
    /\ agLast = AgLastNone
    /\ env = [v \in EnvVars |-> Unset]
    /\ settings = NoSettings
    /\ idp = IdpIdle
    /\ lz = [w \in LzSlots |-> LzIdle]
    /\ lzInstalls = <<>>
    /\ cReq = [r \in CSlots |-> CIdle]
    /\ cStart = NoSession

SpecToken == TokenInit /\ [][TkNext]_vars

SpecAgent == SectionsInit /\ [][AgNext]_vars

\* two requests are about to arrive for a session in a drawn state
ConcurrentInit ==
    /\ agentState = [s \in SessionIds |-> NoMeta]
    /\ smLast = SmLastNone
    /\ mRec = <<>>
    /\ mU = <<>>
    /\ mV = <<>>
    /\ mRel = "same"
    /\ mOnce = NotRun
    /\ mTwice = NotRun
    /\ mOther = NotRun
    /\ cStart \in StartSessions
    /\ sessions = [s \in SessionIds |-> IF s = CSession THEN cStart ELSE NoSession]
    /\ inflight = [r \in Slots |-> NoRequest]
    /\ created = [s \in SessionIds |-> 0]
    /\ stLast = StLastNone
    /\ tok = TokIdle
    /\ ca = CaIdle
    /\ agent = NoAgent
    /\ agLast = AgLastNone
    /\ env = [v \in EnvVars |-> Unset]
    /\ settings = NoSettings
    /\ idp = IdpIdle
    /\ lz = [w \in LzSlots |-> LzIdle]
    /\ lzInstalls = <<>>
    /\ cReq = [r \in CSlots |-> CIdle]

SpecConcurrent == ConcurrentInit /\ [][CNext]_vars

\* the process starts in a drawn environment
SetupInit ==
    /\ agentState = [s \in SessionIds |-> NoMeta]
    /\ smLast = SmLastNone
    /\ mRec = <<>>
    /\ mU = <<>>
    /\ mV = <<>>
    /\ mRel = "same"
    /\ mOnce = NotRun
    /\ mTwice = NotRun
    /\ mOther = NotRun
    /\ sessions = [s \in SessionIds |-> NoSession]
    /\ inflight = [r \in Slots |-> NoRequest]
    /\ created = [s \in SessionIds |-> 0]
    /\ stLast = StLastNone
    /\ tok = TokIdle
    /\ ca = CaIdle
    /\ agent = NoAgent
    /\ agLast = AgLastNone
    /\ cReq = [r \in CSlots |-> CIdle]
    /\ cStart = NoSession
    /\ env \in Environments
    /\ settings = NoSettings
    /\ idp = IdpIdle
    /\ lz = [w \in LzSlots |-> LzIdle]
    /\ lzInstalls = <<>>

SpecSetup == SetupInit /\ [][SuNext]_vars

\* the metadata restored for a session may name a section that is no key of
\* section_transitions
CorruptedMetadata ==
    {[client_state |-> [current_section |-> "UNKNOWN_SECTION",
                        progress |-> ComputeProgress(done)],
      completed_sections |-> done, present |-> TRUE] :
        done \in {<<>>, <<"CLIENT_INFORMATION">>}}

\* sessions without metadata and sessions whose stored pointer is corrupted
CorruptedInit ==
    /\ agentState \in [SessionIds -> {NoMeta} \cup CorruptedMetadata]
    /\ smLast = SmLastNone
    /\ mRec = <<>>
    /\ mU = <<>>
    /\ mV = <<>>
    /\ mRel = "same"
    /\ mOnce = NotRun
    /\ mTwice = NotRun
    /\ mOther = NotRun
    /\ sessions = [s \in SessionIds |-> NoSession]
    /\ inflight = [r \in Slots |-> NoRequest]
    /\ created = [s \in SessionIds |-> 0]
    /\ stLast = StLastNone
    /\ tok = TokIdle
    /\ ca = CaIdle
    /\ agent = NoAgent
    /\ agLast = AgLastNone
    /\ cReq = [r \in CSlots |-> CIdle]
    /\ cStart = NoSession
    /\ env = [v \in EnvVars |-> Unset]
    /\ settings = NoSettings
    /\ idp = IdpIdle
    /\ lz = [w \in LzSlots |-> LzIdle]
    /\ lzInstalls = <<>>

SpecCorrupted == CorruptedInit /\ [][SMNext]_vars

SpecLazy == SectionsInit /\ [][LzNext]_vars

(***************************************************************************)
(* Claims about the session store and the merge.                           *)
(***************************************************************************)
StNow == sessions[stLast.sid]

\* every answer at the default of its field, every progress entry not_started
AllDefaults(session) ==
    /\ session.present
    /\ \A i \in 1..Len(AnswersFields) :
          session.answers[AnswersFields[i].name] =
              IF AnswersFields[i].list THEN List(<<>>) ELSE Str("")
    /\ \A k \in ProgressKeys : session.progress[k] = "not_started"

\* C5: the first get_session_state for an id creates a state with all answers
\* at their defaults and all progress not_started; a later call with the same
\* id, after any updates, leaves the existing state as it is, and a state is
\* constructed exactly once per id that was ever referred to.
C5_GetOrCreateIdempotent ==
    /\ \A s \in SessionIds :
          /\ created[s] <= 1
          /\ sessions[s].present <=> created[s] = 1
    /\ stLast.op = "get_session_state" =>
          IF stLast.before.present
          THEN StNow = stLast.before
          ELSE AllDefaults(StNow)

\* get_session_state was called for a session that holds collected answers
C5_Witness ==
    /\ stLast.op = "get_session_state"
    /\ stLast.before.present
    /\ stLast.before.answers["full_name"] = Str("B")
    /\ stLast.before.progress["personalInfo"] # "not_started"

\* C6: applying update_answers with the same update map twice in a row leaves
\* the answer record as applying it once does.
C6_MergeIdempotent ==
    mTwice.run => mTwice.answers = mOnce.answers

\* a map of two keys that changed the record was applied twice
C6_Witness ==
    /\ mTwice.run
    /\ Len(mU) >= 2
    /\ mOnce.answers # mRec
    /\ mOnce.answers["guardians"] = List(<<"x">>)

\* C7: the record after merge is the same whether a field is supplied under
\* its canonical name or under its alias, for aliases without a dot and for
\* maps that mix canonical names and dotted aliases.
C7_AliasSameAsCanonical ==
    (mRel = "alias" /\ mOnce.run /\ mOther.run) =>
        /\ mOnce.answers = mOther.answers
        /\ mOnce.raised = mOther.raised

\* C8: a key that resolves to no schema field is silently ignored in either
\* branch: it raises no error and the record is what it is without that key.
C8_UnknownKeyIgnored ==
    (mRel = "drop" /\ mOnce.run /\ mOther.run) =>
        /\ mOnce.raised => mOther.raised
        /\ mOnce.answers = mOther.answers

\* C9: every key of an update map that resolves to a field is assigned,
\* whatever the other keys of the map are and whatever their order.
C9_EveryResolvableKeyApplied ==
    mOnce.run =>
        \A i \in 1..Len(mU) :
            (/\ ResolveKey(mU[i][1]) # 0
             /\ \A j \in 1..Len(mU) : j # i => ResolveKey(mU[j][1]) # ResolveKey(mU[i][1]))
            => mOnce.answers[AnswersFields[ResolveKey(mU[i][1])].name] = mU[i][2]

\* C10: a field of a session's answer record keeps its value through a
\* request unless an update of that request names the field: neither the
\* merge of the incoming answers nor the write-back after manage_state calls
\* returns another field to its default.
C10_AnswersAccumulate ==
    (stLast.op \in {"invoke_begin", "invoke_end", "invoke_raised"} /\ stLast.before.present) =>
        \A f \in FieldNames \ stLast.named :
            StNow.answers[f] = stLast.before.answers[f]

(***************************************************************************)
(* Claims about get_access_token (SpecToken).                              *)
(***************************************************************************)
\* the exceptions by which the token capability signals a rate limit
RateLimitSignals == {"429", "Too Many Requests"}
\* the results of the calls made so far, in order
CallResults(events) ==
    LET calls == SelectSeq(events, LAMBDA e : e.ev = "call")
    IN  [i \in 1..Len(calls) |-> calls[i].result]
TokDone == tok.pc = "done"
EveryCallRateLimited ==
    \A i \in DOMAIN tok.events :
        tok.events[i].ev = "call" => tok.events[i].result \in RateLimitSignals

\* C12: the token capability is never called more than max_retries times, and
\* when it signals a rate limit on every call get_access_token has called it
\* exactly max_retries times when it returns, and it returns an error.
C12_RateLimitedExactlyMaxRetries ==
    tok.pc # "idle" =>
        /\ NumCalls(tok.events) <= tok.max_retries
        /\ (TokDone /\ EveryCallRateLimited) =>
              /\ NumCalls(tok.events) = tok.max_retries
              /\ tok.access_token = None
              /\ tok.error.text # "None"

\* three rate-limited calls with the default max_retries, and the error
C12_Witness ==
    /\ TokDone
    /\ tok.max_retries = DefaultMaxRetries
    /\ EveryCallRateLimited
    /\ NumCalls(tok.events) = DefaultMaxRetries

\* C13: a call that yields a token is the last thing get_access_token does:
\* it is call k <= max_retries, the k-1 calls before it were rate-limited and
\* each was followed by one sleep, and the token is returned with no error.
C13_TokenAfterExactlyKCalls ==
    \A i \in DOMAIN tok.events :
        (tok.events[i].ev = "call" /\ tok.events[i].result \notin ErrorStrings) =>
            LET k == NumCalls(tok.events)
                results == CallResults(tok.events)
            IN  /\ i = Len(tok.events)
                /\ TokDone
                /\ tok.access_token = tok.events[i].result
                /\ tok.error.text = "None"
                /\ k <= tok.max_retries
                /\ NumSleeps(tok.events) = k - 1
                /\ \A j \in 1..(k - 1) : results[j] \in RateLimitSignals

\* two rate-limited calls, then the token on the third
C13_Witness ==
    /\ TokDone
    /\ tok.access_token # None
    /\ NumCalls(tok.events) = 3
    /\ NumSleeps(tok.events) = 2

\* C14: a failure that is not a rate-limit signal ends get_access_token at
\* once: the failed call is the last event (no sleep, no further call), an
\* error is returned and no token; on the first attempt that is one call.
C14_OtherFailureIsFatal ==
    \A i \in DOMAIN tok.events :
        (/\ tok.events[i].ev = "call"
         /\ tok.events[i].result \in ErrorStrings \ RateLimitSignals) =>
            /\ i = Len(tok.events)
            /\ TokDone
            /\ tok.access_token = None
            /\ tok.error.text = "Error accessing gateway"
            /\ tok.error.arg = tok.events[i].result

\* the first call fails with invalid_client: one call, no sleep
C14_Witness ==
    /\ TokDone
    /\ tok.max_retries = DefaultMaxRetries
    /\ tok.events = <<Call("invalid_client")>>

\* C15: when every attempt was rate-limited, the error get_access_token
\* returns carries the attempt count (Failed to get access token after N
\* attempts).
C15_ExhaustionCarriesAttemptCount ==
    (/\ TokDone
     /\ tok.max_retries >= 1
     /\ NumCalls(tok.events) = tok.max_retries
     /\ EveryCallRateLimited) =>
        /\ tok.error.text = "Failed to get access token after attempts"
        /\ tok.error.arg = tok.max_retries

(***************************************************************************)
(* Claims about create_agent and invoke of src/ep_agent.py (SpecAgent).    *)
(***************************************************************************)
AgEnded == agLast.kind # "none"

\* C11: the answers mapping of a response holds every value the request
\* supplied under a schema alias, at that alias.
C11_ResponseHoldsSuppliedAnswers ==
    agLast.kind = "response" =>
        \A i \in DOMAIN agLast.supplied :
            agLast.supplied[i][1] \in FieldAliases =>
                agLast.answers[agLast.supplied[i][1]] = agLast.supplied[i][2]

\* the pages a listing that follows the continuation cursor fetches: up to
\* the last page, or up to the first empty one
RECURSIVE PagesFollowed(_, _)
PagesFollowed(pages, cursor) ==
    IF cursor = Len(pages) \/ pages[cursor] = <<>>
    THEN cursor
    ELSE PagesFollowed(pages, cursor + 1)
RECURSIVE Concatenation(_, _)
Concatenation(pages, n) ==
    IF n = 0 THEN <<>> ELSE Concatenation(pages, n - 1) \o pages[n]

\* C16: the tools handed to the agent are the concatenation of all pages of
\* the gateway's catalogue in fetch order, fetched with one call per page.
C16_ToolListingFollowsCursor ==
    (AgEnded /\ agLast.fetches > 0) =>
        LET n == PagesFollowed(agLast.catalogue, 1)
        IN  /\ agLast.fetches = n
            /\ agent.tools = Concatenation(agLast.catalogue, n)

\* C19: no request ends with an exception leaving invoke; every request
\* ends with a returned response.
C19_NeverPropagatesException ==
    agLast.kind # "raised"

\* the configuration lacks the client credentials or the gateway URL
LacksCredentialsOrUrl(file) ==
    \/ ~file.readable
    \/ file.cognito_info # "client_info"
    \/ file.gateway_url \in {"absent", ""}

\* C20: when the configuration is missing, unreadable or lacks the client
\* credentials or the gateway URL, create_agent fails without a call to the
\* token capability or to the gateway.
C20_ConfigurationErrorBeforeAnyCall ==
    (AgEnded /\ agLast.created /\ LacksCredentialsOrUrl(agLast.file)) =>
        /\ agLast.kind = "raised"
        /\ agLast.text = "Failed to initialize agent"
        /\ agLast.token_calls = 0
        /\ agLast.mcp_events = <<>>

(***************************************************************************)
(* Claims about two requests for one session (SpecConcurrent).             *)
(***************************************************************************)
CEnded(r) == cReq[r].pc \in {"done", "raised"}
\* a session that was never asked for reads as a new one
Stored(session) == IF session.present THEN session ELSE NewSessionState

\* C17: when two requests for the same session have ended, the session is
\* what running the two one after the other, in one of the two orders,
\* leaves: no update is lost.
C17_SameSessionSerialized ==
    (CEnded("r1") /\ CEnded("r2")) =>
        Stored(sessions[CSession]) \in
            {RunAlone(RunAlone(cStart, cReq["r1"]), cReq["r2"]),
             RunAlone(RunAlone(cStart, cReq["r2"]), cReq["r1"])}

\* C18: when a request has ended with an exception and no other request
\* ran, the session is what it was before the request.
C18_RaiseLeavesSessionUnchanged ==
    \A r \in CSlots :
        (cReq[r].pc = "raised" /\ \A o \in CSlots \ {r} : cReq[o].pc = "idle") =>
            Stored(sessions[CSession]) = Stored(cReq[r].start)

(***************************************************************************)
(* Claims about Settings and setup_m2m_credential_provider (SpecSetup).    *)
(***************************************************************************)
RequiredVars ==
    {"AGENT_NAME", "COGNITO_USER_POOL_ID", "COGNITO_CLIENT_ID",
     "COGNITO_CLIENT_SECRET", "GATEWAY_URL"}
MissingVars == {v \in RequiredVars : env[v] = Unset}

\* C21: Settings() raises exactly when a required variable is missing, the
\* message then names every missing required variable, and validate() is
\* true on every instance that was constructed without raising.
C21_RaisesExactlyWhenRequiredMissing ==
    settings.constructed =>
        /\ settings.raised <=> MissingVars # {}
        /\ settings.raised => MissingVars \subseteq Range(settings.missing_required)
        /\ ~settings.raised => validate(settings)

\* C22: when the create call fails with a text that contains "already
\* exists", setup_m2m_credential_provider does not raise, has made exactly
\* one create call, and returns None.
C22_AlreadyExistsReturnsNone ==
    (idp.run /\ idp.create_calls > 0 /\ MentionsAlreadyExists(idp.create_result)) =>
        /\ ~idp.raised
        /\ idp.create_calls = 1
        /\ idp.result.is_none

(***************************************************************************)
(* Claims about a corrupted section pointer (SpecCorrupted) and about the  *)
(* section progression from fresh sessions (SpecSections).                 *)
(***************************************************************************)
\* the warnings and errors invoke can print
AnomalyReports ==
    {"Warning: Could not access agent.state directly", "Error accessing agent state",
     "Error updating agent state", "Error in invoke function"}

\* C23: when the stored pointer names no known section, a request that the
\* agent answers leaves the pointer and the completed sections as they were,
\* returns its normal response, and reports the condition in the log.
C23_CorruptedPointerReported ==
    (smLast.kind = "ok" /\ SMPrevSection \notin SectionNames) =>
        /\ SMNowSection = SMPrevSection
        /\ SMNow.completed_sections = smLast.prev.completed_sections
        /\ smLast.printed \cap AnomalyReports # {}

\* C27: from fresh sessions, the completed sections of every session are,
\* in order and without duplicates, exactly the sections before its current
\* section in WORKFLOW_SECTIONS; the last section is never among them and
\* the stored progress is the one the pointer's index gives.
C27_CompletedArePrecedingSections ==
    \A s \in SessionIds :
        agentState[s].present =>
            LET i == SectionIndex(agentState[s].client_state.current_section)
            IN  /\ i >= 1
                /\ agentState[s].completed_sections = SubSeq(WORKFLOW_SECTIONS, 1, i - 1)
                /\ WORKFLOW_SECTIONS[Len(WORKFLOW_SECTIONS)]
                      \notin Range(agentState[s].completed_sections)
                /\ agentState[s].client_state.progress
                      = (((i - 1) * 1000) \div (Len(WORKFLOW_SECTIONS) - 1)) * 100

\* a session has moved two sections on
C27_Witness ==
    \E s \in SessionIds :
        /\ agentState[s].present
        /\ agentState[s].client_state.current_section = "FAMILY_INFORMATION"
        /\ Len(agentState[s].completed_sections) = 2

(***************************************************************************)
(* Claims about the session store (SpecStore).                             *)
(***************************************************************************)
\* the status values the system prompt names
ProgressStatuses == {"not_started", "in_progress", "completed"}

\* C24: in every session every progress entry holds not_started,
\* in_progress or completed, and the entries are those of the known sections.
C24_ProgressHoldsKnownStatus ==
    \A s \in SessionIds :
        sessions[s].present =>
            /\ DOMAIN sessions[s].progress = ProgressKeys
            /\ \A k \in ProgressKeys : sessions[s].progress[k] \in ProgressStatuses

\* C28: the merge of a request's answers changes only the fields its keys
\* resolve to: every other field of the session's answer record and the
\* session's progress are what they were.
C28_MergeFrame ==
    (stLast.op \in {"invoke_begin", "invoke_raised"} /\ stLast.before.present) =>
        /\ \A f \in FieldNames \ stLast.named :
              StNow.answers[f] = stLast.before.answers[f]
        /\ StNow.progress = stLast.before.progress

\* answers were merged into a session that held another answer and progress
C28_Witness ==
    /\ stLast.op = "invoke_begin"
    /\ stLast.before.present
    /\ stLast.named = {"full_name"}
    /\ stLast.before.answers["full_name"] # StNow.answers["full_name"]
    /\ stLast.before.answers["guardians"] = List(<<"x">>)
    /\ stLast.before.progress["personalInfo"] # "not_started"

\* C29: an operation for one session id leaves every other session as it
\* is: no other session is changed, removed or replaced.
C29_SessionIsolation ==
    [][\A s \in SessionIds : s # stLast'.sid => sessions'[s] = sessions[s]]_vars

\* a session was created and changed while the other one held answers
C29_Witness ==
    /\ stLast.op = "invoke_begin"
    /\ stLast.sid = "s1"
    /\ ~stLast.before.present
    /\ sessions["s1"].answers["full_name"] = Str("B")
    /\ sessions["s2"].present
    /\ sessions["s2"].answers["guardians"] = List(<<"x">>)

(***************************************************************************)
(* Claims about the retry loops of create_agent (SpecAgent).               *)
(***************************************************************************)
\* a failure that is no rate-limit signal is the last event of the log
FatalEndsLog(events) ==
    \A i \in DOMAIN events :
        (events[i].ev = "call" /\ events[i].result \in ErrorStrings \ RateLimitSignals)
            => i = Len(events)

\* C25: in the MCP loop of create_agent a failure that is no rate-limit
\* signal ends create_agent at once: no attempt follows it, and create_agent
\* is not in the loop any more.
C25_McpOtherFailureIsFatal ==
    /\ ca.pc = "mcp" =>
          \A i \in DOMAIN ca.events :
              ca.events[i].ev = "call" => ca.events[i].result \in RateLimitSignals
    /\ AgEnded => FatalEndsLog(agLast.mcp_events)

\* the attempt (0-indexed) that event i of a log belongs to
AttemptOf(events, i) == NumCalls(SubSeq(events, 1, i)) - 1

\* every sleep of a log follows a rate-limited attempt and is followed by
\* another attempt unless the loop is still running; it lasts between 2^i
\* and 2^i + 1 seconds for attempt i; there are fewer sleeps than attempts
WaitsInOrder(events, max_attempts, running) ==
    /\ \A i \in DOMAIN events :
          events[i].ev = "sleep" =>
              /\ i > 1
              /\ events[i - 1].ev = "call"
              /\ events[i - 1].result \in RateLimitSignals
              /\ events[i].backoff >= Pow2(AttemptOf(events, i)) * 10
              /\ events[i].backoff <= Pow2(AttemptOf(events, i)) * 10 + 10
              /\ i = Len(events) => (running /\ NumCalls(events) < max_attempts)
    /\ NumSleeps(events) <= NumCalls(events)
    /\ max_attempts >= 1 => NumSleeps(events) <= max_attempts - 1

\* C26: in get_access_token and in the MCP loop of create_agent a wait
\* occurs only between a rate-limited attempt i and attempt i+1, lasts at
\* least 2^i and at most 2^i + 1 seconds, and a run of max_attempts attempts
\* makes at most max_attempts - 1 waits, none before the first attempt and
\* none after the last.
C26_BackoffWaits ==
    /\ tok.pc # "idle" => WaitsInOrder(tok.events, tok.max_retries, tok.pc = "loop")
    /\ ca.pc # "idle" => WaitsInOrder(ca.events, McpMaxRetries, ca.pc = "mcp")
    /\ AgEnded => WaitsInOrder(agLast.mcp_events, McpMaxRetries, FALSE)

\* the MCP loop has waited twice, the second time for the longest it can
C26_Witness ==
    /\ ca.pc = "mcp"
    /\ NumSleeps(ca.events) = 2
    /\ ca.events[4].backoff = 30
    /\ ca.token_calls = 3

(***************************************************************************)
(* Claims about the lazy creation of the agent (SpecLazy).                 *)
(***************************************************************************)
\* the calls of create_agent that returned an Agent
Installs == {i \in DOMAIN lzInstalls : lzInstalls[i] # None}

\* C30: at most one call of create_agent succeeds and installs the
\* module-level agent, and once one has succeeded the agent stays installed.
C30_AgentCreatedAtMostOnce ==
    /\ Cardinality(Installs) <= 1
    /\ Installs # {} => agent # NoAgent

====
